---- MODULE Spec2Model ----
(***************************************************************************)
(* Model of the RainViewer frame/overlay viewer of src/script6.js.         *)
(*                                                                         *)
(* The module-level `let` variables of the script are the VARIABLES of     *)
(* the model.  Every handler of the script is a pure operator from a       *)
(* state record to a state record (named as in the source); the actions    *)
(* apply one handler to the current state.  JavaScript values that are     *)
(* not plain integers (NaN, undefined, null) are encoded as tagged pairs.  *)
(***************************************************************************)
EXTENDS Integers, Sequences, FiniteSets, TLC

VARIABLES
    mapLayers,            \* overlay layers attached to `map` (layer ids)
    baseLayer,            \* script6.js:2
    radarOverlayLayers,   \* script6.js:3, sparse array: index -> layer id
    cloudOverlayLayers,   \* script6.js:4
    currentFrame,         \* script6.js:5, a JS number
    playInterval,         \* script6.js:6, undefined | null | timer id
    radarFrames,          \* script6.js:8
    satelliteFrames,      \* script6.js:9
    apiHost,              \* script6.js:10
    rainOpacity,          \* script6.js:12, in tenths
    cloudOpacity,         \* script6.js:13, in tenths
    optionColorScheme,    \* script6.js:16
    layers,               \* the live L.tileLayer objects: id -> [class, url, opacity]
    layerCount,           \* number of L.tileLayer overlay constructions so far
    timers,               \* ids of the active setInterval timers
    timerCount,           \* number of setInterval calls so far
    fetchState            \* position of fetchRainViewerData

vars == <<mapLayers, baseLayer, radarOverlayLayers, cloudOverlayLayers,
          currentFrame, playInterval, radarFrames, satelliteFrames, apiHost,
          rainOpacity, cloudOpacity, optionColorScheme, layers, layerCount,
          timers, timerCount, fetchState>>

----------------------------------------------------------------------------
(* Bounds of the model *)

MaxPast == 2        \* longest data.radar.past drawn
MaxNowcast == 1     \* longest data.radar.nowcast drawn
MaxInfrared == 3    \* longest data.satellite.infrared drawn
MaxLayers == 5      \* overlay layers constructed in one behaviour
MaxTimers == 2      \* setInterval calls in one behaviour

----------------------------------------------------------------------------
(* JavaScript values *)

JsNumber(n) == <<"number", n>>
NaN == <<"NaN", 0>>
undefined == <<"undefined", 0>>
null == <<"null", 0>>

IsNumber(v) == v[1] = "number"
Val(v) == v[2]

\* truthiness of a timer handle / undefined / null (script6.js:130)
Truthy(v) == IsNumber(v) /\ Val(v) # 0

\* a + b on JS numbers
JsAdd(a, b) == IF IsNumber(a) /\ IsNumber(b) THEN JsNumber(Val(a) + Val(b)) ELSE NaN

\* a % m on JS numbers: NaN when m is 0 or an operand is NaN, otherwise the
\* remainder with the sign of the dividend
JsMod(a, m) ==
    IF ~IsNumber(a) \/ ~IsNumber(m) THEN NaN
    ELSE IF Val(m) = 0 THEN NaN
    ELSE IF Val(a) >= 0 THEN JsNumber(Val(a) % Val(m))
    ELSE JsNumber(0 - ((0 - Val(a)) % Val(m)))

Min(a, b) == IF a <= b THEN a ELSE b

\* arr[i] is truthy for a JS array of objects arr and a JS number i
HasIndex(arr, i) == IsNumber(i) /\ Val(i) >= 0 /\ Val(i) < Len(arr)

\* arr[i] for a JS array modelled as a (1-based) sequence
At(arr, i) == arr[Val(i) + 1]

----------------------------------------------------------------------------
(* Static tables and options *)

optionSmoothData == 1
optionSnowColors == 1
optionExtension == "webp"
TileSize == 256

radarColorSchemes ==
    [universal_blue |-> 2, original |-> 1, titan |-> 3, weatherchannel |-> 4,
     meteored |-> 5, nexrad |-> 6, rainbow |-> 7, darksky |-> 8, raw |-> 0]

mapStyles ==
    [geographic |-> [url |-> "https://{s}.tile.openstreetmap.org/{z}/{x}/{y}.png",
                     attribution |-> "&copy; OpenStreetMap contributors"],
     streetmap |-> [url |-> "https://{s}.tile.openstreetmap.org/{z}/{x}/{y}.png",
                    attribution |-> "&copy; OpenStreetMap contributors"],
     satellite |-> [url |-> "https://{s}.arcgisonline.com/ArcGIS/rest/services/World_Imagery/MapServer/tile/{z}/{y}/{x}",
                    attribution |-> "Tiles &copy; Esri"],
     cyclosm |-> [url |-> "https://{s}.tile-cyclosm.openstreetmap.fr/cyclosm/{z}/{x}/{y}.png",
                  attribution |-> "&copy; Cyclosm & OpenStreetMap contributors"],
     tracestrack |-> [url |-> "https://tile.tracestrack.org/{z}/{x}/{y}.png",
                      attribution |-> "&copy; TracesTrack"]]

defaultStyleKey == "geographic"

----------------------------------------------------------------------------
(* The state as one record, and the handlers as functions of it *)

St ==
    [mapLayers |-> mapLayers, baseLayer |-> baseLayer,
     radarOverlayLayers |-> radarOverlayLayers,
     cloudOverlayLayers |-> cloudOverlayLayers,
     currentFrame |-> currentFrame, playInterval |-> playInterval,
     radarFrames |-> radarFrames, satelliteFrames |-> satelliteFrames,
     apiHost |-> apiHost, rainOpacity |-> rainOpacity,
     cloudOpacity |-> cloudOpacity, optionColorScheme |-> optionColorScheme,
     layers |-> layers, layerCount |-> layerCount,
     timers |-> timers, timerCount |-> timerCount, fetchState |-> fetchState]

\* The template string of buildRadarTileUrl, kept as its parts.
buildRadarTileUrl(st, frame) ==
    [host |-> st.apiHost, path |-> frame.path, size |-> TileSize,
     scheme |-> st.optionColorScheme, smooth |-> optionSmoothData,
     snow |-> optionSnowColors, ext |-> optionExtension]

buildSatelliteTileUrl(st, frame) ==
    [host |-> st.apiHost, path |-> frame.path, size |-> TileSize,
     scheme |-> 0, smooth |-> 0, snow |-> 0, ext |-> optionExtension]

\* arr[frameIndex] is truthy for a sparse array of layers
Cached(arr, frameIndex) == IsNumber(frameIndex) /\ Val(frameIndex) \in DOMAIN arr

\* arr[frameIndex] = layer
Store(arr, frameIndex, id) ==
    [k \in (DOMAIN arr) \cup {Val(frameIndex)} |->
        IF k = Val(frameIndex) THEN id ELSE arr[k]]

\* L.tileLayer(url, {opacity}): a fresh layer object
tileLayer(st, class, url, opacity) ==
    [st EXCEPT !.layerCount = st.layerCount + 1,
               !.layers = [k \in (DOMAIN st.layers) \cup {st.layerCount + 1} |->
                              IF k = st.layerCount + 1
                              THEN [class |-> class, url |-> url, opacity |-> opacity]
                              ELSE st.layers[k]]]

\* lines 87-90: const layer = L.tileLayer(...); radarOverlayLayers[frameIndex] = layer
\* (c is the state with the fresh layer, whose id is c.layerCount)
storeRadarLayer(c, frameIndex) ==
    [c EXCEPT !.radarOverlayLayers = Store(@, frameIndex, c.layerCount)]

createRadarLayer(st, frameIndex) ==
    storeRadarLayer(tileLayer(st, "radar",
                              buildRadarTileUrl(st, At(st.radarFrames, frameIndex)),
                              st.rainOpacity),
                    frameIndex)

\* line 92: map.addLayer(radarOverlayLayers[frameIndex])
attachRadarLayer(st, frameIndex) ==
    [st EXCEPT !.mapLayers = @ \cup {st.radarOverlayLayers[Val(frameIndex)]}]

\* lines 86-92 without the presence check of line 86
addRadarOverlayAlways(st, frameIndex) ==
    attachRadarLayer(createRadarLayer(st, frameIndex), frameIndex)

\* lines 86-92
addRadarOverlay(st, frameIndex) ==
    attachRadarLayer(IF ~Cached(st.radarOverlayLayers, frameIndex)
                     THEN createRadarLayer(st, frameIndex)
                     ELSE st,
                     frameIndex)

\* lines 96-99
storeCloudLayer(c, frameIndex) ==
    [c EXCEPT !.cloudOverlayLayers = Store(@, frameIndex, c.layerCount)]

createCloudLayer(st, frameIndex) ==
    storeCloudLayer(tileLayer(st, "cloud",
                              buildSatelliteTileUrl(st, At(st.satelliteFrames, frameIndex)),
                              st.cloudOpacity),
                    frameIndex)

\* line 101: map.addLayer(cloudOverlayLayers[frameIndex])
attachCloudLayer(st, frameIndex) ==
    [st EXCEPT !.mapLayers = @ \cup {st.cloudOverlayLayers[Val(frameIndex)]}]

\* lines 95-101
addCloudOverlay(st, frameIndex) ==
    attachCloudLayer(IF ~Cached(st.cloudOverlayLayers, frameIndex)
                     THEN createCloudLayer(st, frameIndex)
                     ELSE st,
                     frameIndex)

addOverlays(st, frameIndex) ==
    IF ~HasIndex(st.radarFrames, frameIndex) THEN st
    ELSE IF ~HasIndex(st.satelliteFrames, frameIndex) THEN st
    ELSE addCloudOverlay(addRadarOverlay(st, frameIndex), frameIndex)

\* if (arr[frameIndex] && map.hasLayer(arr[frameIndex])) map.removeLayer(arr[frameIndex])
removeIfShown(st, arr, frameIndex) ==
    IF Cached(arr, frameIndex) /\ arr[Val(frameIndex)] \in st.mapLayers
    THEN [st EXCEPT !.mapLayers = @ \ {arr[Val(frameIndex)]}]
    ELSE st

removeOverlays(st, frameIndex) ==
    removeIfShown(removeIfShown(st, st.radarOverlayLayers, frameIndex),
                  st.cloudOverlayLayers, frameIndex)

\* addOverlays(currentFrame)
addCurrentOverlays(st) == addOverlays(st, st.currentFrame)

\* removeOverlays(currentFrame)
removeCurrentOverlays(st) == removeOverlays(st, st.currentFrame)

showFrame(st, index) ==
    addCurrentOverlays([removeCurrentOverlays(st) EXCEPT !.currentFrame = index])

\* the number of frames taken from the radar list alone
MaxOfRadarOnly(st) == Len(st.radarFrames)

\* Math.min(radarFrames.length, satelliteFrames.length)
MaxOf(st) == Min(Len(st.radarFrames), Len(st.satelliteFrames))

\* nextFrame without the wrap-around
NextIndexNoWrap(cur, max) == JsAdd(cur, JsNumber(1))

NextIndex(cur, max) == JsMod(JsAdd(cur, JsNumber(1)), JsNumber(max))

\* prevFrame without the "+ max" that keeps the dividend non-negative
PrevIndexNoBias(cur, max) == JsMod(JsAdd(cur, JsNumber(-1)), JsNumber(max))

PrevIndex(cur, max) ==
    JsMod(JsAdd(JsAdd(cur, JsNumber(-1)), JsNumber(max)), JsNumber(max))

nextFrame(st) == showFrame(st, NextIndex(st.currentFrame, MaxOf(st)))

prevFrame(st) == showFrame(st, PrevIndex(st.currentFrame, MaxOf(st)))

\* pausing without clearInterval (line 131)
playToggleNoClear(st) ==
    IF Truthy(st.playInterval)
    THEN [st EXCEPT !.playInterval = null]
    ELSE [st EXCEPT !.timerCount = st.timerCount + 1,
                    !.timers = st.timers \cup {st.timerCount + 1},
                    !.playInterval = JsNumber(st.timerCount + 1)]

\* pausing without playInterval = null (line 132)
playToggleKeepHandle(st) ==
    IF Truthy(st.playInterval)
    THEN [st EXCEPT !.timers = st.timers \ {Val(st.playInterval)}]
    ELSE [st EXCEPT !.timerCount = st.timerCount + 1,
                    !.timers = st.timers \cup {st.timerCount + 1},
                    !.playInterval = JsNumber(st.timerCount + 1)]

playToggle(st) ==
    IF Truthy(st.playInterval)
    THEN [st EXCEPT !.timers = st.timers \ {Val(st.playInterval)},
                    !.playInterval = null]
    ELSE [st EXCEPT !.timerCount = st.timerCount + 1,
                    !.timers = st.timers \cup {st.timerCount + 1},
                    !.playInterval = JsNumber(st.timerCount + 1)]

----------------------------------------------------------------------------
(* The metadata document and fetchRainViewerData *)

\* an optional JSON field: {} when missing, {v} when present
Missing == {}
Present(v) == {v}
Get(opt) == CHOOSE v \in opt : TRUE

\* opt || []
OrEmpty(opt) == IF opt = Missing THEN <<>> ELSE Get(opt)

\* data.radar?.past, data.radar?.nowcast, data.satellite?.infrared
Past(data) == IF data.radar = Missing THEN Missing ELSE Get(data.radar).past
Nowcast(data) == IF data.radar = Missing THEN Missing ELSE Get(data.radar).nowcast
Infrared(data) == IF data.satellite = Missing THEN Missing ELSE Get(data.satellite).infrared

\* lines 64-68, run without suspension once res.json() has resolved
fetchComplete(st, data) ==
    addCurrentOverlays([st EXCEPT !.apiHost = data.host,
                                  !.radarFrames = OrEmpty(Past(data)) \o OrEmpty(Nowcast(data)),
                                  !.satelliteFrames = OrEmpty(Infrared(data)),
                                  !.fetchState = "loaded"])

----------------------------------------------------------------------------
(* The input handlers wired by the DOMContentLoaded handler *)

\* parseFloat of the value string of a range input, in tenths
parseFloat ==
    [v \in {"0", "0.4", "0.40", "1", "1.0"} |->
        CASE v = "0" -> 0
          [] v \in {"0.4", "0.40"} -> 4
          [] v \in {"1", "1.0"} -> 10]

\* the opacity applied to the displayed layer of the class only
setOpacityShown(st, arr, value) ==
    [st EXCEPT !.layers =
        [k \in DOMAIN st.layers |->
            IF k \in st.mapLayers /\ \E i \in DOMAIN arr : arr[i] = k
            THEN [st.layers[k] EXCEPT !.opacity = value]
            ELSE st.layers[k]]]

\* arr.forEach(layer => { if (layer) layer.setOpacity(value); })
setOpacityAll(st, arr, value) ==
    [st EXCEPT !.layers =
        [k \in DOMAIN st.layers |->
            IF \E i \in DOMAIN arr : arr[i] = k
            THEN [st.layers[k] EXCEPT !.opacity = value]
            ELSE st.layers[k]]]

\* radarOverlayLayers.forEach(... layer.setOpacity(rainOpacity))
setRadarOpacity(st) == setOpacityAll(st, st.radarOverlayLayers, st.rainOpacity)

\* cloudOverlayLayers.forEach(... layer.setOpacity(cloudOpacity))
setCloudOpacity(st) == setOpacityAll(st, st.cloudOverlayLayers, st.cloudOpacity)

opacityRainInput(st, value) ==
    setRadarOpacity([st EXCEPT !.rainOpacity = parseFloat[value]])

opacityCloudInput(st, value) ==
    setCloudOpacity([st EXCEPT !.cloudOpacity = parseFloat[value]])

\* the scheme change without the cache clear of line 188
radarStyleSelectNoClear(st, sel) ==
    IF sel \in DOMAIN radarColorSchemes
    THEN addCurrentOverlays(
             removeCurrentOverlays(
                 [st EXCEPT !.optionColorScheme = radarColorSchemes[sel]]))
    ELSE st

\* the scheme change clearing both caches
radarStyleSelectClearBoth(st, sel) ==
    IF sel \in DOMAIN radarColorSchemes
    THEN addCurrentOverlays(
             [removeCurrentOverlays(
                  [st EXCEPT !.optionColorScheme = radarColorSchemes[sel]])
              EXCEPT !.radarOverlayLayers = <<>>, !.cloudOverlayLayers = <<>>])
    ELSE st

\* the scheme change without removeOverlays(currentFrame) (line 186)
radarStyleSelectNoDetach(st, sel) ==
    IF sel \in DOMAIN radarColorSchemes
    THEN addCurrentOverlays(
             [st EXCEPT !.optionColorScheme = radarColorSchemes[sel],
                        !.radarOverlayLayers = <<>>])
    ELSE st

\* the scheme change that also rewinds to the first frame
radarStyleSelectRewind(st, sel) ==
    IF sel \in DOMAIN radarColorSchemes
    THEN addCurrentOverlays(
             [removeCurrentOverlays(
                  [st EXCEPT !.optionColorScheme = radarColorSchemes[sel]])
              EXCEPT !.radarOverlayLayers = <<>>, !.currentFrame = JsNumber(0)])
    ELSE st

\* the scheme change clearing the satellite cache instead of the radar cache
radarStyleSelectClearCloud(st, sel) ==
    IF sel \in DOMAIN radarColorSchemes
    THEN addCurrentOverlays(
             [removeCurrentOverlays(
                  [st EXCEPT !.optionColorScheme = radarColorSchemes[sel]])
              EXCEPT !.cloudOverlayLayers = <<>>])
    ELSE st

radarStyleSelect(st, sel) ==
    IF sel \in DOMAIN radarColorSchemes
    THEN addCurrentOverlays(
             [removeCurrentOverlays(
                  [st EXCEPT !.optionColorScheme = radarColorSchemes[sel]])
              EXCEPT !.radarOverlayLayers = <<>>])
    ELSE st

\* the base-style change re-adding the overlays of the first frame
mapStyleSelectFirstFrame(st, sel) ==
    IF sel \in DOMAIN mapStyles
    THEN addOverlays([st EXCEPT !.baseLayer = [url |-> mapStyles[sel].url,
                                               attribution |-> mapStyles[sel].attribution]],
                     JsNumber(0))
    ELSE st

mapStyleSelect(st, sel) ==
    IF sel \in DOMAIN mapStyles
    THEN addCurrentOverlays(
             [st EXCEPT !.baseLayer = [url |-> mapStyles[sel].url,
                                       attribution |-> mapStyles[sel].attribution]])
    ELSE st

----------------------------------------------------------------------------
(* Inputs *)

ApiHosts == {"https://tilecache.rainviewer.com"}

\* the n frame descriptors of one product that follow time stamp from
\* (a frame's path is the product's prefix followed by its time stamp)
Frames(product, from, n) ==
    [i \in 1..n |-> [path |-> <<product, from + i>>, time |-> from + i]]

\* a list of frames as a field of the document; an empty list may also be
\* a missing field
OptFrames(frames) ==
    IF frames = <<>> THEN {Missing, Present(<<>>)} ELSE {Present(frames)}

\* data.radar: the past frames, and the nowcast frames that follow them in time
RadarObjects ==
    UNION {[past : OptFrames(Frames("/v2/radar", 0, p)),
            nowcast : OptFrames(Frames("/v2/radar", p, n))] :
               <<p, n>> \in (0..MaxPast) \X (0..MaxNowcast)}

SatelliteObjects ==
    UNION {[infrared : OptFrames(Frames("/v2/satellite", 0, n))] : n \in 0..MaxInfrared}

MetadataDocs ==
    [host : ApiHosts,
     radar : {Missing} \cup {Present(r) : r \in RadarObjects},
     satellite : {Missing} \cup {Present(o) : o \in SatelliteObjects}]

RainOpacityInputs == {"0.4", "1"}
CloudOpacityInputs == {"0.40", "1.0"}
SchemeInputs == {"universal_blue", "raw", "plasma"}
StyleInputs == {"satellite", "terrain"}

----------------------------------------------------------------------------
(* Actions *)

\* layer objects no longer referenced by a cache or by the map are reclaimed
Reachable(st) ==
    st.mapLayers
      \cup {st.radarOverlayLayers[i] : i \in DOMAIN st.radarOverlayLayers}
      \cup {st.cloudOverlayLayers[i] : i \in DOMAIN st.cloudOverlayLayers}

Collect(st) ==
    [st EXCEPT !.layers = [k \in (DOMAIN st.layers) \cap Reachable(st) |-> st.layers[k]]]

Apply(st) ==
    \E t \in {Collect(st)} :
    /\ t.layerCount <= MaxLayers
    /\ t.timerCount <= MaxTimers
    /\ mapLayers' = t.mapLayers
    /\ baseLayer' = t.baseLayer
    /\ radarOverlayLayers' = t.radarOverlayLayers
    /\ cloudOverlayLayers' = t.cloudOverlayLayers
    /\ currentFrame' = t.currentFrame
    /\ playInterval' = t.playInterval
    /\ radarFrames' = t.radarFrames
    /\ satelliteFrames' = t.satelliteFrames
    /\ apiHost' = t.apiHost
    /\ rainOpacity' = t.rainOpacity
    /\ cloudOpacity' = t.cloudOpacity
    /\ optionColorScheme' = t.optionColorScheme
    /\ layers' = t.layers
    /\ layerCount' = t.layerCount
    /\ timers' = t.timers
    /\ timerCount' = t.timerCount
    /\ fetchState' = t.fetchState

\* state after the DOMContentLoaded handler: the fetch is in flight, the
\* base layer is on the map and the handlers are wired
Init ==
    /\ mapLayers = {}
    /\ baseLayer = [url |-> mapStyles[defaultStyleKey].url,
                    attribution |-> mapStyles[defaultStyleKey].attribution]
    /\ radarOverlayLayers = <<>>
    /\ cloudOverlayLayers = <<>>
    /\ currentFrame = JsNumber(0)
    /\ playInterval = undefined
    /\ radarFrames = <<>>
    /\ satelliteFrames = <<>>
    /\ apiHost = ""
    /\ rainOpacity = 10
    /\ cloudOpacity = 10
    /\ optionColorScheme = 2
    /\ layers = <<>>
    /\ layerCount = 0
    /\ timers = {}
    /\ timerCount = 0
    /\ fetchState = "fetching"

\* the request is issued again after a failure
FetchResponseRetry ==
    /\ fetchState \in {"fetching", "failed"}
    /\ Apply([St EXCEPT !.fetchState = "parsing"])

\* await fetch(...) resolves
FetchResponse ==
    /\ fetchState = "fetching"
    /\ Apply([St EXCEPT !.fetchState = "parsing"])

\* the request rejects, or the body is not valid JSON
FetchFail ==
    /\ fetchState \in {"fetching", "parsing"}
    /\ Apply([St EXCEPT !.fetchState = "failed"])

\* await res.json() resolves
FetchComplete ==
    /\ fetchState = "parsing"
    /\ \E data \in MetadataDocs : Apply(fetchComplete(St, data))

PlayClick == Apply(playToggle(St))

NextClick == Apply(nextFrame(St))

PrevClick == Apply(prevFrame(St))

\* a tick of an active setInterval(nextFrame, 700) timer
TimerTick == \E t \in timers : Apply(nextFrame(St))

RainOpacityInput == \E v \in RainOpacityInputs : Apply(opacityRainInput(St, v))

CloudOpacityInput == \E v \in CloudOpacityInputs : Apply(opacityCloudInput(St, v))

RadarStyleChange == \E sel \in SchemeInputs : Apply(radarStyleSelect(St, sel))

MapStyleChange == \E sel \in StyleInputs : Apply(mapStyleSelect(St, sel))

Next ==
    \/ FetchResponse
    \/ FetchFail
    \/ FetchComplete
    \/ PlayClick
    \/ NextClick
    \/ PrevClick
    \/ TimerTick
    \/ RainOpacityInput
    \/ CloudOpacityInput
    \/ RadarStyleChange
    \/ MapStyleChange

Spec == Init /\ [][Next]_vars

----------------------------------------------------------------------------
(* Vocabulary of the properties *)

Loaded == fetchState = "loaded"

\* i is an integer index in [0, max)
InRange(i, max) == IsNumber(i) /\ Val(i) \in 0..(max - 1)

\* the part of the state the frame controller owns
FrameCore(st) ==
    [currentFrame |-> st.currentFrame, playInterval |-> st.playInterval,
     timers |-> st.timers,
     radarOverlayLayers |-> st.radarOverlayLayers,
     cloudOverlayLayers |-> st.cloudOverlayLayers,
     mapLayers |-> st.mapLayers, layerCount |-> st.layerCount]

MaxCalls == 2

\* the states that some sequence of at most n nextFrame/prevFrame calls
\* reaches from a state of the set from
RECURSIVE AfterCalls(_, _)
AfterCalls(from, n) ==
    IF n = 0 THEN from
    ELSE from \cup AfterCalls({nextFrame(s) : s \in from} \cup {prevFrame(s) : s \in from},
                              n - 1)

----------------------------------------------------------------------------
(* C1: from a loaded state with max >= 1 and currentFrame in [0, max),     *)
(* every sequence of nextFrame/prevFrame calls leaves currentFrame an      *)
(* integer in [0, max) (and the catalog, hence max, as it was).            *)
C1_NextPrevStayInRange ==
    (Loaded /\ MaxOf(St) >= 1 /\ InRange(currentFrame, MaxOf(St))) =>
        \A t \in AfterCalls({St}, MaxCalls) :
            /\ MaxOf(t) = MaxOf(St)
            /\ InRange(t.currentFrame, MaxOf(St))

\* the last frame of a catalog of at least two frames is shown (only
\* nextFrame/prevFrame move currentFrame away from 0) and the next call wraps
C1_Witness ==
    /\ Loaded
    /\ MaxOf(St) >= 2
    /\ currentFrame = JsNumber(MaxOf(St) - 1)
    /\ nextFrame(St).currentFrame = JsNumber(0)

(* C2: with the catalog loaded and max = 0, playToggle, nextFrame and      *)
(* prevFrame each leave currentFrame, playInterval, the caches and the     *)
(* attached layers as they were.                                           *)
C2_EmptyCatalogNoOp ==
    (Loaded /\ MaxOf(St) = 0) =>
        /\ FrameCore(playToggle(St)) = FrameCore(St)
        /\ FrameCore(nextFrame(St)) = FrameCore(St)
        /\ FrameCore(prevFrame(St)) = FrameCore(St)

(* C3: until the metadata fetch resolves, the frame core is the initial    *)
(* one whatever play/next/prev events and timer ticks were processed.      *)
C3_EventsBeforeLoadAreNoOps ==
    (fetchState \in {"fetching", "parsing"}) =>
        /\ currentFrame = JsNumber(0)
        /\ playInterval = undefined
        /\ timers = {}
        /\ radarOverlayLayers = <<>>
        /\ cloudOverlayLayers = <<>>
        /\ mapLayers = {}

(* C4: the step that completes the fetch with max >= 1 ends with           *)
(* currentFrame = 0 and the radar and satellite layers of frame 0 created  *)
(* and attached.                                                           *)
C4_LoadShowsFrameZero ==
    [][(fetchState = "parsing" /\ fetchState' = "loaded"
        /\ Min(Len(radarFrames'), Len(satelliteFrames')) >= 1) =>
            /\ currentFrame' = JsNumber(0)
            /\ 0 \in DOMAIN radarOverlayLayers'
            /\ 0 \in DOMAIN cloudOverlayLayers'
            /\ radarOverlayLayers'[0] \in mapLayers'
            /\ cloudOverlayLayers'[0] \in mapLayers']_vars

(* C5: in every reachable state with the catalog loaded and max >= 1,      *)
(* currentFrame is an integer in [0, max).                                 *)
C5_CurrentFrameInRange ==
    (Loaded /\ MaxOf(St) >= 1) => InRange(currentFrame, MaxOf(St))

(* C6: from a loaded state with currentFrame in [0, max), nextFrame then   *)
(* prevFrame and prevFrame then nextFrame return currentFrame to its       *)
(* value; with max = 1 each single call leaves it unchanged.               *)
C6_NextPrevRoundTrip ==
    (Loaded /\ MaxOf(St) >= 1 /\ InRange(currentFrame, MaxOf(St))) =>
        /\ prevFrame(nextFrame(St)).currentFrame = currentFrame
        /\ nextFrame(prevFrame(St)).currentFrame = currentFrame
        /\ (MaxOf(St) = 1 =>
               /\ nextFrame(St).currentFrame = currentFrame
               /\ prevFrame(St).currentFrame = currentFrame)

\* frame 0 is shown again after another frame was visited
C6_Witness ==
    /\ Loaded
    /\ MaxOf(St) >= 2
    /\ currentFrame = JsNumber(0)
    /\ Cardinality(DOMAIN radarOverlayLayers) >= 2
    /\ nextFrame(St).currentFrame # currentFrame

(* C7: showing a frame index whose layers are cached constructs no layer   *)
(* and attaches the cached handles; stepping onto a cached index likewise; *)
(* and no two live layers of one class are built for the same frame.       *)
C7_CachedLayersReused ==
    /\ \A i \in (DOMAIN radarOverlayLayers) \cap (DOMAIN cloudOverlayLayers) :
          \A t \in {showFrame(St, JsNumber(i))} :
             /\ t.layerCount = layerCount
             /\ t.layers = layers
             /\ t.radarOverlayLayers = radarOverlayLayers
             /\ t.cloudOverlayLayers = cloudOverlayLayers
             /\ radarOverlayLayers[i] \in t.mapLayers
             /\ cloudOverlayLayers[i] \in t.mapLayers
    /\ \A t \in {nextFrame(St), prevFrame(St)} :
          (Cached(radarOverlayLayers, t.currentFrame)
             /\ Cached(cloudOverlayLayers, t.currentFrame)) =>
                 /\ t.layerCount = layerCount
                 /\ t.radarOverlayLayers = radarOverlayLayers
                 /\ t.cloudOverlayLayers = cloudOverlayLayers
    /\ \A a, b \in DOMAIN layers :
          (layers[a].class = layers[b].class
             /\ layers[a].url.path = layers[b].url.path) => a = b

\* a frame shown before is shown again, and every layer ever constructed
\* is still the cached one
C7_Witness ==
    /\ Loaded
    /\ currentFrame = JsNumber(0)
    /\ Cardinality(DOMAIN radarOverlayLayers) >= 2
    /\ DOMAIN cloudOverlayLayers = DOMAIN radarOverlayLayers
    /\ layerCount = 2 * Cardinality(DOMAIN radarOverlayLayers)
    /\ {radarOverlayLayers[0], cloudOverlayLayers[0]} = mapLayers

(* C8: every cached radar layer, and every attached radar layer, was built *)
(* with the color scheme now stored in optionColorScheme.                  *)
C8_RadarCacheHasCurrentScheme ==
    /\ \A i \in DOMAIN radarOverlayLayers :
          layers[radarOverlayLayers[i]].url.scheme = optionColorScheme
    /\ \A id \in mapLayers :
          layers[id].class = "radar" => layers[id].url.scheme = optionColorScheme

\* the scheme was changed after layers had been built (one was dropped),
\* and frames were visited again afterwards
C8_Witness ==
    /\ optionColorScheme = radarColorSchemes["raw"]
    /\ layerCount > Cardinality(DOMAIN layers)
    /\ Cardinality(DOMAIN radarOverlayLayers) >= 2
    /\ \E id \in mapLayers : layers[id].class = "radar"

(* C9: a color-scheme change leaves the satellite cache and its layers as  *)
(* they were, and the satellite layer attached for the current frame after *)
(* the change is the handle cached before it.                              *)
C9_SchemeChangeKeepsCloudCache ==
    \A sel \in SchemeInputs :
        \A t \in {radarStyleSelect(St, sel)} :
           /\ t.cloudOverlayLayers = cloudOverlayLayers
           /\ \A i \in DOMAIN cloudOverlayLayers :
                 /\ cloudOverlayLayers[i] \in DOMAIN t.layers
                 /\ t.layers[cloudOverlayLayers[i]] = layers[cloudOverlayLayers[i]]
           /\ (Cached(cloudOverlayLayers, currentFrame)
                 /\ HasIndex(radarFrames, currentFrame)
                 /\ HasIndex(satelliteFrames, currentFrame)) =>
                     /\ cloudOverlayLayers[Val(currentFrame)] \in t.mapLayers
                     /\ \A id \in t.mapLayers :
                           t.layers[id].class = "cloud" =>
                               id = cloudOverlayLayers[Val(currentFrame)]

\* after a scheme change: the radar cache holds only the rebuilt layer of
\* the current frame, which is younger than every cached satellite layer
C9_Witness ==
    /\ Loaded
    /\ optionColorScheme = radarColorSchemes["raw"]
    /\ Cardinality(DOMAIN cloudOverlayLayers) >= 2
    /\ Cached(cloudOverlayLayers, currentFrame)
    /\ DOMAIN radarOverlayLayers = {Val(currentFrame)}
    /\ \A i \in DOMAIN cloudOverlayLayers :
          cloudOverlayLayers[i] < radarOverlayLayers[Val(currentFrame)]
    /\ cloudOverlayLayers[Val(currentFrame)] \in mapLayers

(* C10: every cached radar layer has opacity rainOpacity and every cached  *)
(* satellite layer has opacity cloudOpacity; an opacity input of one class *)
(* leaves the layers of the other class as they were.                      *)
C10_CachedOpacityIsCurrent ==
    /\ \A i \in DOMAIN radarOverlayLayers :
          layers[radarOverlayLayers[i]].opacity = rainOpacity
    /\ \A i \in DOMAIN cloudOverlayLayers :
          layers[cloudOverlayLayers[i]].opacity = cloudOpacity
    /\ \A v \in RainOpacityInputs :
          \A t \in {opacityRainInput(St, v)} :
              \A i \in DOMAIN cloudOverlayLayers :
                  t.layers[cloudOverlayLayers[i]] = layers[cloudOverlayLayers[i]]
    /\ \A v \in CloudOpacityInputs :
          \A t \in {opacityCloudInput(St, v)} :
              \A i \in DOMAIN radarOverlayLayers :
                  t.layers[radarOverlayLayers[i]] = layers[radarOverlayLayers[i]]

\* the rain opacity was changed while several frames were cached, the cloud
\* opacity differs, and a radar layer was rebuilt after a scheme change
C10_Witness ==
    /\ rainOpacity = 4
    /\ cloudOpacity = 10
    /\ Cardinality(DOMAIN radarOverlayLayers) >= 2
    /\ Cardinality(DOMAIN cloudOverlayLayers) >= 2
    /\ layerCount > Cardinality(DOMAIN layers)
    /\ \E i \in DOMAIN radarOverlayLayers : i # Val(currentFrame)

(* C11: at most one setInterval timer is active, and a timer is active     *)
(* exactly when playInterval holds its handle.                             *)
C11_OneTimerIffPlaying ==
    /\ Cardinality(timers) <= 1
    /\ timers = (IF Truthy(playInterval) THEN {Val(playInterval)} ELSE {})
    /\ \A t \in {playToggle(St)} :
          /\ Cardinality(t.timers) <= 1
          /\ t.timers = (IF Truthy(t.playInterval) THEN {Val(t.playInterval)} ELSE {})

\* playing again after a pause: the second timer is the only active one
C11_Witness ==
    /\ timerCount = 2
    /\ playInterval = JsNumber(2)
    /\ timers = {2}

(* C12: from a non-playing state two consecutive playToggle calls end in a *)
(* non-playing state with no active timer and with currentFrame, the       *)
(* caches and the attached layers as before; and in a non-playing state    *)
(* no timer tick is possible.                                              *)
C12_ToggleTwiceStops ==
    ~Truthy(playInterval) =>
        /\ \A t \in {playToggle(playToggle(St))} :
              /\ ~Truthy(t.playInterval)
              /\ t.timers = {}
              /\ t.currentFrame = currentFrame
              /\ t.mapLayers = mapLayers
              /\ t.radarOverlayLayers = radarOverlayLayers
              /\ t.cloudOverlayLayers = cloudOverlayLayers
        /\ ~ENABLED TimerTick

\* paused after playing, with a frame on the map
C12_Witness ==
    /\ Loaded
    /\ playInterval = null
    /\ timerCount >= 1
    /\ timers = {}
    /\ mapLayers # {}

MaxLen == 5

(* C13: for every pair of catalog lengths with max = min(r, s) >= 1,       *)
(* nextFrame moves from c to c + 1 and from max - 1 to 0, prevFrame moves  *)
(* from c to c - 1 and from 0 to max - 1.                                  *)
C13_StepAndWrap ==
    /\ \A r, s \in 1..MaxLen :
          \A c \in 0..(Min(r, s) - 1) :
              /\ NextIndex(JsNumber(c), Min(r, s))
                    = JsNumber(IF c = Min(r, s) - 1 THEN 0 ELSE c + 1)
              /\ PrevIndex(JsNumber(c), Min(r, s))
                    = JsNumber(IF c = 0 THEN Min(r, s) - 1 ELSE c - 1)
    /\ \A m \in {Min(Len(radarFrames), Len(satelliteFrames))} :
          (Loaded /\ m >= 1 /\ InRange(currentFrame, m)) =>
              /\ nextFrame(St).currentFrame
                    = JsNumber(IF Val(currentFrame) = m - 1
                               THEN 0 ELSE Val(currentFrame) + 1)
              /\ prevFrame(St).currentFrame
                    = JsNumber(IF Val(currentFrame) = 0
                               THEN m - 1 ELSE Val(currentFrame) - 1)

\* lists of different lengths, the last common frame shown after the first
C13_Witness ==
    /\ Loaded
    /\ Len(radarFrames) = 3
    /\ Len(satelliteFrames) = 2
    /\ currentFrame = JsNumber(1)
    /\ DOMAIN cloudOverlayLayers = {0, 1}

(* C14: once the metadata fetch has failed it stays failed (no retry),     *)
(* both frame lists stay empty, and no overlay layer is ever constructed,  *)
(* cached or attached.                                                     *)
C14_FailedFetchStaysIdle ==
    [][/\ fetchState = "failed" => fetchState' = "failed"
       /\ fetchState' = "failed" =>
             /\ radarFrames' = <<>>
             /\ satelliteFrames' = <<>>
             /\ layerCount' = 0
             /\ layers' = <<>>
             /\ radarOverlayLayers' = <<>>
             /\ cloudOverlayLayers' = <<>>
             /\ mapLayers' = {}]_vars

\* after the failure: frames were stepped, play was started and the scheme
\* and base style were changed, each of which calls addOverlays
C14_Witness ==
    /\ fetchState = "failed"
    /\ currentFrame = NaN
    /\ Truthy(playInterval)
    /\ optionColorScheme = radarColorSchemes["raw"]
    /\ baseLayer.url = mapStyles["satellite"].url
    /\ layerCount = 0

(* C15: the overlay layers attached to the map are either none or exactly  *)
(* the radar layer and the satellite layer cached for currentFrame.        *)
C15_AttachedAreCurrentPair ==
    \/ mapLayers = {}
    \/ /\ Cached(radarOverlayLayers, currentFrame)
       /\ Cached(cloudOverlayLayers, currentFrame)
       /\ mapLayers = {radarOverlayLayers[Val(currentFrame)],
                       cloudOverlayLayers[Val(currentFrame)]}
       /\ layers[radarOverlayLayers[Val(currentFrame)]].class = "radar"
       /\ layers[cloudOverlayLayers[Val(currentFrame)]].class = "cloud"

\* a frame other than the first is shown after a scheme change dropped a
\* radar layer
C15_Witness ==
    /\ Cardinality(mapLayers) = 2
    /\ IsNumber(currentFrame)
    /\ Val(currentFrame) >= 1
    /\ layerCount > Cardinality(DOMAIN layers)
    /\ optionColorScheme # 2

(* C16: a scheme change with a key of the scheme table sets               *)
(* optionColorScheme and leaves currentFrame, playInterval (and the        *)
(* timers), both opacities, the frame lists and the satellite cache as     *)
(* they were; afterwards the radar cache holds exactly the rebuilt layer   *)
(* of currentFrame when a frame is shown and nothing otherwise.  A key     *)
(* that is not in the table changes nothing.                               *)
C16_SchemeChangeFrame ==
    \A sel \in SchemeInputs :
        \A t \in {radarStyleSelect(St, sel)} :
            IF sel \in DOMAIN radarColorSchemes
            THEN /\ t.optionColorScheme = radarColorSchemes[sel]
                 /\ t.currentFrame = currentFrame
                 /\ t.playInterval = playInterval
                 /\ t.timers = timers
                 /\ t.rainOpacity = rainOpacity
                 /\ t.cloudOpacity = cloudOpacity
                 /\ t.radarFrames = radarFrames
                 /\ t.satelliteFrames = satelliteFrames
                 /\ t.apiHost = apiHost
                 /\ t.baseLayer = baseLayer
                 /\ t.cloudOverlayLayers = cloudOverlayLayers
                 /\ IF mapLayers # {}
                    THEN /\ DOMAIN t.radarOverlayLayers = {Val(currentFrame)}
                         /\ t.radarOverlayLayers[Val(currentFrame)] = layerCount + 1
                         /\ t.layerCount = layerCount + 1
                    ELSE /\ t.radarOverlayLayers = <<>>
                         /\ t.layerCount = layerCount
            ELSE t = St

\* while playing and with a changed rain opacity, the scheme was changed on
\* a frame other than the first: the radar cache holds the rebuilt layer only
C16_Witness ==
    /\ Loaded
    /\ optionColorScheme = radarColorSchemes["raw"]
    /\ Truthy(playInterval)
    /\ rainOpacity = 4
    /\ IsNumber(currentFrame)
    /\ Val(currentFrame) >= 1
    /\ DOMAIN radarOverlayLayers = {Val(currentFrame)}
    /\ radarOverlayLayers[Val(currentFrame)] = layerCount
    /\ Cardinality(DOMAIN cloudOverlayLayers) >= 2

(* C17: a base-style change leaves currentFrame, playInterval, the timers, *)
(* both caches, the layer objects and the attached layers as they were     *)
(* and constructs no layer; a key that is not in the style table changes   *)
(* nothing.                                                                *)
C17_BaseStyleKeepsFrameCore ==
    \A sel \in StyleInputs :
        \A t \in {mapStyleSelect(St, sel)} :
            /\ FrameCore(t) = FrameCore(St)
            /\ t.layers = layers
            /\ (sel \notin DOMAIN mapStyles => t = St)
            /\ (sel \in DOMAIN mapStyles =>
                   [t EXCEPT !.baseLayer = baseLayer] = St)

\* the base style was changed and a frame other than the first is shown
C17_Witness ==
    /\ baseLayer.url = mapStyles["satellite"].url
    /\ IsNumber(currentFrame)
    /\ Val(currentFrame) >= 1
    /\ Cardinality(mapLayers) = 2
    /\ Cardinality(DOMAIN radarOverlayLayers) >= 2

(* C18: while playing with the catalog loaded and max >= 1, a timer tick   *)
(* moves currentFrame from an index c in [0, max) to (c + 1) mod max.      *)
C18_TickAdvancesByOne ==
    (Loaded /\ MaxOf(St) >= 1 /\ Truthy(playInterval) /\ ENABLED TimerTick) =>
        /\ IsNumber(currentFrame)
        /\ Val(currentFrame) \in 0..(MaxOf(St) - 1)
        /\ nextFrame(St).currentFrame
              = JsNumber((Val(currentFrame) + 1) % MaxOf(St))

(* C19: every index with a radar layer also has a satellite layer, every   *)
(* cached index lies in [0, min(len(radarFrames), len(satelliteFrames))),  *)
(* and both caches are empty while either list is empty.                   *)
C19_LayersOnlyForCommonFrames ==
    /\ DOMAIN radarOverlayLayers \subseteq DOMAIN cloudOverlayLayers
    /\ DOMAIN cloudOverlayLayers
          \subseteq 0..(Min(Len(radarFrames), Len(satelliteFrames)) - 1)
    /\ (radarFrames = <<>> \/ satelliteFrames = <<>>) =>
          /\ radarOverlayLayers = <<>>
          /\ cloudOverlayLayers = <<>>
    /\ \A id \in DOMAIN layers :
          \E i \in 0..(Min(Len(radarFrames), Len(satelliteFrames)) - 1) :
              layers[id].url.path \in {radarFrames[i + 1].path, satelliteFrames[i + 1].path}

\* the radar list is longer than the satellite list, every common frame has
\* its satellite layer, and a scheme change left one radar layer
C19_Witness ==
    /\ Len(radarFrames) = 3
    /\ Len(satelliteFrames) = 2
    /\ DOMAIN cloudOverlayLayers = {0, 1}
    /\ Cardinality(DOMAIN radarOverlayLayers) = 1
    /\ optionColorScheme = radarColorSchemes["raw"]

====
